---- MODULE Spec2Model ----
(***************************************************************************)
(* Terminal suspension and external-handler dispatch of tg (tg/utils.py):  *)
(* the resolver get_file_handler and the context manager class suspend.    *)
(*                                                                         *)
(* Strings are sequences of tokens.  A token is one character, or a word   *)
(* that is never split ("txt", "less", "view"), or a placeholder           *)
(* ("{file_path}" of str.format, "%s" of mailcap).  An Optional[str] is a  *)
(* record [none, s]: None is [none |-> TRUE, s |-> <<>>].                  *)
(***************************************************************************)
EXTENDS Naturals, Sequences, FiniteSets

\* ---------------------------------------------------------------- bounds
MaxStem == 2
MaxOps == 2

Regions == {"chats", "msgs", "status"}

\* The two bound methods a region's _refresh can hold.  win.refresh draws
\* to the terminal at once; win.noutrefresh only stages the draw until the
\* next curses.doupdate().
Immediate == "refresh"
Batched == "noutrefresh"

\* ------------------------------------------------------ optional strings
None == [none |-> TRUE, s |-> <<>>]
Some(s) == [none |-> FALSE, s |-> s]
\* Python truthiness of an Optional[str]: None and "" are falsy.
Truthy(o) == ~o.none /\ Len(o.s) > 0

\* ------------------------------------------------------------ file paths
\* A path is a stem of at most MaxStem characters followed by an extension:
\* none, the unknown ".a", or ".txt" of text/plain.
StemChars == {"a", " ", "'"}
Exts == {<<>>, <<".", "a">>, <<".", "txt">>}

RECURSIVE SeqsUpTo(_)
SeqsUpTo(n) ==
    IF n = 0 THEN {<<>>}
    ELSE LET shorter == SeqsUpTo(n - 1)
         IN  shorter \cup {Append(p, c) : p \in {q \in shorter : Len(q) = n - 1}, c \in StemChars}

Paths == {stem \o ext : stem \in SeqsUpTo(MaxStem), ext \in Exts} \ {<<>>}

\* str.rfind(".") as a 1-based index, 0 when there is no dot.
RECURSIVE LastDot(_, _)
LastDot(p, i) ==
    IF i = 0 THEN 0
    ELSE IF p[i] = "." THEN i
    ELSE LastDot(p, i - 1)

\* posixpath.splitext, the extension only: the part from the last dot on,
\* unless everything before that dot is dots.
SplitExt(p) ==
    LET d == LastDot(p, Len(p))
    IN  IF d > 0 /\ \E i \in 1..(d - 1) : p[i] # "."
        THEN SubSeq(p, d, Len(p))
        ELSE <<>>

\* mimetypes.guess_type: a table lookup on the extension.
GuessType(p) ==
    IF SplitExt(p) = <<".", "txt">> THEN Some(<<"text/plain">>) ELSE None

\* shlex.quote: unchanged when every character is safe, else wrapped in
\* single quotes with every ' replaced by '"'"'.
UnsafeChars == {" ", "'"}

RECURSIVE EscapeQuotes(_)
EscapeQuotes(p) ==
    IF p = <<>> THEN <<>>
    ELSE (IF Head(p) = "'" THEN <<"'", "\"", "'", "\"", "'">> ELSE <<Head(p)>>)
         \o EscapeQuotes(Tail(p))

Quote(p) ==
    IF p = <<>> THEN <<"'", "'">>
    ELSE IF \A i \in 1..Len(p) : p[i] \notin UnsafeChars THEN p
    ELSE <<"'">> \o EscapeQuotes(p) \o <<"'">>

\* Replace every occurrence of the placeholder token by the sequence arg.
RECURSIVE Substitute(_, _, _)
Substitute(template, placeholder, arg) ==
    IF template = <<>> THEN <<>>
    ELSE (IF Head(template) = placeholder THEN arg ELSE <<Head(template)>>)
         \o Substitute(Tail(template), placeholder, arg)

\* config.DEFAULT_OPEN.format(file_path=...)
Format(template, quoted) == Substitute(template, "{file_path}", quoted)

\* mailcap.findmatch(caps, mtype, filename=file_path): the view command of
\* the entry for mtype with %s replaced by the file name, or None.
FindMatch(caps, mtype, p) ==
    IF caps.none THEN None ELSE Some(Substitute(caps.s, "%s", p))

\* The configurations: config.DEFAULT_OPEN unset (None), empty, or a
\* template; the mailcap entry for text/plain missing or present.
DefaultOpens == {None, Some(<<>>), Some(<<"less", " ", "{file_path}">>)}
Mailcaps == {None, Some(<<"view", " ", "%s">>)}

Returned(v) == [raised |-> FALSE, value |-> v]
Raised == [raised |-> TRUE, value |-> None]

\* get_file_handler with the path substituted unquoted.
get_file_handler_unquoted(p, default, defaultOpen, caps) ==
    LET mtype == GuessType(p)
    IN  IF ~Truthy(mtype) THEN Returned(default)
        ELSE LET handler == FindMatch(caps, mtype, p)
             IN  IF ~Truthy(handler)
                 THEN IF defaultOpen.none
                      THEN Raised
                      ELSE Returned(Some(Format(defaultOpen.s, p)))
                 ELSE Returned(handler)

get_file_handler(p, default, defaultOpen, caps) ==
    LET mtype == GuessType(p)
    IN  IF ~Truthy(mtype) THEN Returned(default)
        ELSE LET handler == FindMatch(caps, mtype, p)
             IN  IF ~Truthy(handler)
                 THEN IF defaultOpen.none
                      THEN Raised   \* None has no attribute format
                      ELSE Returned(Some(Format(defaultOpen.s, Quote(p))))
                 ELSE Returned(handler)

\* ------------------------------------------------------- terminal and UI
VARIABLES
    refresh,        \* view._refresh of chats, msgs, status
    echo,           \* curses.echo() / curses.noecho()
    cbreak,         \* curses.cbreak() / curses.nocbreak()
    keypad,         \* stdscr.keypad(flag)
    cursor,         \* curses.curs_set(visibility)
    isendwin,       \* TRUE from curses.endwin() until the next doupdate()
    pc,             \* "idle", "body", "ended", "reexited", "fatal"
    bodyErr,        \* an exception raised by the body is pending
    escaped,        \* what left the scope: "none", "body", "device"
    exitRuns,       \* runs of __exit__ for the current scope
    launches,       \* child processes started in the current scope
    ops,            \* operations performed in the current scope
    op,             \* the last operation of the body
    pre,            \* terminal and regions when the scope was entered
    entered,        \* terminal and regions when __enter__ returned
    post1,          \* terminal and regions after the first __exit__
    DEFAULT_OPEN,   \* config.DEFAULT_OPEN
    caps            \* mailcap.getcaps(), the entry for text/plain

termvars == <<refresh, echo, cbreak, keypad, cursor, isendwin>>
scopevars == <<pc, bodyErr, escaped, exitRuns, launches, ops, op, pre, entered, post1>>
confvars == <<DEFAULT_OPEN, caps>>
vars == <<termvars, scopevars, confvars>>

Current ==
    [refresh |-> refresh, echo |-> echo, cbreak |-> cbreak, keypad |-> keypad,
     cursor |-> cursor, isendwin |-> isendwin]

\* The UI as the view constructor leaves it: no echo, cbreak mode, keypad
\* decoding on, cursor hidden, every region drawing with win.refresh.
ViewInit ==
    [refresh |-> [r \in Regions |-> Immediate], echo |-> FALSE, cbreak |-> TRUE,
     keypad |-> TRUE, cursor |-> 0, isendwin |-> FALSE]

\* __enter__ with the status region left out of the loop.
EnterStep_skips_status(s, i) ==
    CASE i = 1 -> [s EXCEPT !.refresh = [r \in Regions |->
                       IF r = "status" THEN s.refresh[r] ELSE "noutrefresh"]]
      [] i = 2 -> [s EXCEPT !.echo = TRUE]
      [] i = 3 -> [s EXCEPT !.cbreak = FALSE]
      [] i = 4 -> [s EXCEPT !.keypad = FALSE]
      [] i = 5 -> [s EXCEPT !.cursor = 1]
      [] i = 6 -> [s EXCEPT !.isendwin = TRUE]

\* The statements of __enter__, in order.
EnterStep(s, i) ==
    CASE i = 1 -> [s EXCEPT !.refresh = [r \in Regions |-> "noutrefresh"]]
      [] i = 2 -> [s EXCEPT !.echo = TRUE]
      [] i = 3 -> [s EXCEPT !.cbreak = FALSE]
      [] i = 4 -> [s EXCEPT !.keypad = FALSE]
      [] i = 5 -> [s EXCEPT !.cursor = 1]
      [] i = 6 -> [s EXCEPT !.isendwin = TRUE]

\* __exit__ that flips the echo flag instead of clearing it.
ExitStep_toggles_echo(s, i) ==
    CASE i = 1 -> [s EXCEPT !.refresh = [r \in Regions |-> "refresh"]]
      [] i = 2 -> [s EXCEPT !.echo = ~s.echo]
      [] i = 3 -> [s EXCEPT !.cbreak = TRUE]
      [] i = 4 -> [s EXCEPT !.keypad = TRUE]
      [] i = 5 -> [s EXCEPT !.cursor = 0]
      [] i = 6 -> [s EXCEPT !.isendwin = FALSE]

\* The statements of __exit__, in order.
ExitStep(s, i) ==
    CASE i = 1 -> [s EXCEPT !.refresh = [r \in Regions |-> "refresh"]]
      [] i = 2 -> [s EXCEPT !.echo = FALSE]
      [] i = 3 -> [s EXCEPT !.cbreak = TRUE]
      [] i = 4 -> [s EXCEPT !.keypad = TRUE]
      [] i = 5 -> [s EXCEPT !.cursor = 0]
      [] i = 6 -> [s EXCEPT !.isendwin = FALSE]

Steps == <<"refresh", "echo", "cbreak", "keypad", "curs_set", "screen">>
NSteps == Len(Steps)

RECURSIVE RunEnter(_, _)
RunEnter(s, n) == IF n = 0 THEN s ELSE EnterStep(RunEnter(s, n - 1), n)

\* __exit__ that stops before curses.curs_set(0).
RECURSIVE RunExit_keeps_cursor(_, _)
RunExit_keeps_cursor(s, n) ==
    IF n = 0 THEN s
    ELSE IF n = 5 THEN RunExit_keeps_cursor(s, n - 1)
    ELSE ExitStep(RunExit_keeps_cursor(s, n - 1), n)

RECURSIVE RunExit(_, _)
RunExit(s, n) == IF n = 0 THEN s ELSE ExitStep(RunExit(s, n - 1), n)

\* A curses call raises curses.error when the terminal refuses it.  fail is
\* the statement that raises (0: none does); the assignments to _refresh
\* cannot raise.  The statements before it have taken effect.
Failures == {0} \cup 2..NSteps
Completed(fail) == IF fail = 0 THEN NSteps ELSE fail - 1

SetTerm(s) ==
    /\ refresh' = s.refresh
    /\ echo' = s.echo
    /\ cbreak' = s.cbreak
    /\ keypad' = s.keypad
    /\ cursor' = s.cursor
    /\ isendwin' = s.isendwin

\* ------------------------------------------------------------ operations
NoOp ==
    [name |-> "none", file_path |-> <<>>, cmd |-> Returned(None),
     outcome |-> "ok", launched |-> FALSE, raised |-> FALSE]

\* How a child started with shell=True ends: exit status 0, a non-zero
\* status, status 127 from the shell for a command it cannot find, or the
\* launch itself raising (OSError from fork/exec, KeyboardInterrupt).
ChildOutcomes == {"ok", "nonzero", "notfound", "oserror"}

\* As with check=True: a non-zero status raises CalledProcessError.
ChildRaises_checked(outcome) == outcome \in {"nonzero", "notfound", "oserror"}

\* subprocess.call and subprocess.run (check not set) return the status.
ChildRaises(outcome) == outcome = "oserror"

\* __exit__ returns None: a pending exception is re-raised by the with
\* statement once __exit__ has returned.
ExitSuppresses == FALSE

\* open_file without the early return.
OpenFileCalls_always(cmd) == TRUE

\* open_file: "if not cmd: return".
OpenFileCalls(cmd) == Truthy(cmd)

Init ==
    /\ refresh = ViewInit.refresh
    /\ echo = ViewInit.echo
    /\ cbreak = ViewInit.cbreak
    /\ keypad = ViewInit.keypad
    /\ cursor = ViewInit.cursor
    /\ isendwin = ViewInit.isendwin
    /\ pc = "idle"
    /\ bodyErr = FALSE
    /\ escaped = "none"
    /\ exitRuns = 0
    /\ launches = 0
    /\ ops = 0
    /\ op = NoOp
    /\ pre = ViewInit
    /\ entered = ViewInit
    /\ post1 = ViewInit
    /\ DEFAULT_OPEN \in DefaultOpens
    /\ caps \in Mailcaps

\* with suspend(view) as s: -- __enter__.  When it raises, the with
\* statement never calls __exit__ and the error reaches the caller.
suspend_enter(fail) ==
    /\ pc \in {"idle", "ended", "reexited"}
    /\ SetTerm(RunEnter(Current, Completed(fail)))
    /\ pre' = Current
    /\ entered' = RunEnter(Current, Completed(fail))
    /\ post1' = Current
    /\ pc' = IF fail = 0 THEN "body" ELSE "fatal"
    /\ escaped' = IF fail = 0 THEN "none" ELSE "device"
    /\ bodyErr' = FALSE
    /\ exitRuns' = 0
    /\ launches' = 0
    /\ ops' = 0
    /\ op' = NoOp
    /\ UNCHANGED confvars

InBody == pc = "body" /\ ~bodyErr /\ ops < MaxOps

Launch(name, path, cmd, outcome) ==
    /\ op' = [name |-> name, file_path |-> path, cmd |-> cmd, outcome |-> outcome,
              launched |-> TRUE, raised |-> ChildRaises(outcome)]
    /\ launches' = launches + 1
    /\ bodyErr' = ChildRaises(outcome)

call(outcome) ==
    /\ InBody
    /\ Launch("call", <<>>, Returned(None), outcome)
    /\ ops' = ops + 1
    /\ UNCHANGED <<termvars, confvars, pc, escaped, exitRuns, pre, entered, post1>>

run_with_input(outcome) ==
    /\ InBody
    /\ Launch("run_with_input", <<>>, Returned(None), outcome)
    /\ ops' = ops + 1
    /\ UNCHANGED <<termvars, confvars, pc, escaped, exitRuns, pre, entered, post1>>

open_file(file_path, outcome) ==
    /\ InBody
    /\ LET cmd == get_file_handler(file_path, None, DEFAULT_OPEN, caps)
       IN  IF cmd.raised
           THEN /\ outcome = "ok"
                /\ op' = [name |-> "open_file", file_path |-> file_path, cmd |-> cmd,
                          outcome |-> outcome, launched |-> FALSE, raised |-> TRUE]
                /\ bodyErr' = TRUE
                /\ UNCHANGED launches
           ELSE IF OpenFileCalls(cmd.value)
           THEN Launch("open_file", file_path, cmd, outcome)
           ELSE /\ outcome = "ok"
                /\ op' = [name |-> "open_file", file_path |-> file_path, cmd |-> cmd,
                          outcome |-> outcome, launched |-> FALSE, raised |-> FALSE]
                /\ UNCHANGED <<launches, bodyErr>>
    /\ ops' = ops + 1
    /\ UNCHANGED <<termvars, confvars, pc, escaped, exitRuns, pre, entered, post1>>

\* A scope without guaranteed release: the exit actions only on the
\* normal return path.
suspend_exit_on_success_only(fail) ==
    /\ pc = "body"
    /\ IF bodyErr
       THEN /\ fail = 0
            /\ pc' = "ended"
            /\ escaped' = "body"
            /\ UNCHANGED <<termvars, post1, exitRuns>>
       ELSE /\ SetTerm(RunExit(Current, Completed(fail)))
            /\ post1' = RunExit(Current, Completed(fail))
            /\ exitRuns' = exitRuns + 1
            /\ pc' = IF fail = 0 THEN "ended" ELSE "fatal"
            /\ escaped' = IF fail # 0 THEN "device" ELSE "none"
    /\ UNCHANGED <<confvars, bodyErr, launches, ops, op, pre, entered>>

\* The end of the with block, by return or by a pending exception:
\* __exit__ runs.  A curses.error raised by it replaces the pending one.
suspend_exit(fail) ==
    /\ pc = "body"
    /\ SetTerm(RunExit(Current, Completed(fail)))
    /\ post1' = RunExit(Current, Completed(fail))
    /\ exitRuns' = exitRuns + 1
    /\ pc' = IF fail = 0 THEN "ended" ELSE "fatal"
    /\ escaped' = IF fail # 0 THEN "device"
                  ELSE IF bodyErr /\ ~ExitSuppresses THEN "body"
                  ELSE "none"
    /\ UNCHANGED <<confvars, bodyErr, launches, ops, op, pre, entered>>

\* __exit__ called once more on a scope that has already ended.
exit_again(fail) ==
    /\ pc = "ended"
    /\ SetTerm(RunExit(Current, Completed(fail)))
    /\ exitRuns' = exitRuns + 1
    /\ pc' = IF fail = 0 THEN "reexited" ELSE "fatal"
    /\ escaped' = IF fail # 0 THEN "device" ELSE escaped
    /\ UNCHANGED <<confvars, bodyErr, launches, ops, op, pre, entered, post1>>

Next ==
    \/ \E fail \in Failures : suspend_enter(fail)
    \/ \E outcome \in ChildOutcomes : call(outcome)
    \/ \E outcome \in ChildOutcomes : run_with_input(outcome)
    \/ \E file_path \in Paths, outcome \in ChildOutcomes : open_file(file_path, outcome)
    \/ \E fail \in Failures : suspend_exit(fail)
    \/ \E fail \in Failures : exit_again(fail)

Spec == Init /\ [][Next]_vars

\* ---------------------------------------------------------------- claims
AllRegions(strategy) == \A r \in Regions : refresh[r] = strategy

IsActive == ~echo /\ cbreak /\ keypad /\ cursor = 0 /\ ~isendwin

ScopeOver == pc \in {"ended", "reexited", "fatal"}

Resolved == op.name = "open_file"
Recognized == Truthy(GuessType(op.file_path))

C2_GuaranteedRelease == (pc = "ended" /\ bodyErr) => (exitRuns = 1 /\ IsActive)

C2_Witness ==
    /\ pc = "ended"
    /\ op.name = "call"
    /\ op.raised
    /\ exitRuns = 1
    /\ IsActive

\* C3 as stated: no error of the scope body leaves the scope; only a
\* terminal device failure does.
C3_OnlyDeviceFailureEscapes == ScopeOver => escaped \in {"none", "device"}

\* C3 as amended: a child that is not found or exits non-zero raises
\* nothing; an error raised by the body leaves the scope once __exit__ has
\* run; a device failure in __enter__ or __exit__ leaves the scope too.
C3_Propagation ==
    /\ (op.launched /\ op.outcome \in {"nonzero", "notfound"}) => ~op.raised
    /\ (pc = "body" /\ op.launched /\ op.outcome \in {"nonzero", "notfound"}) => ~bodyErr
    /\ pc = "ended" => /\ exitRuns = 1
                       /\ escaped = (IF bodyErr THEN "body" ELSE "none")
    /\ pc = "fatal" => escaped = "device"

C3_Witness ==
    /\ pc = "ended"
    /\ exitRuns = 1
    /\ op.outcome = "oserror"
    /\ escaped = "body"

\* C4: for a path of unknown media type open_file resolves the
\* DEFAULT_OPEN template with the quoted path when DEFAULT_OPEN is
\* configured, and nothing only when it is not.
C4_UnknownTypeFallsBack ==
    (Resolved /\ ~Recognized) =>
        IF Truthy(DEFAULT_OPEN)
        THEN op.cmd = Returned(Some(Format(DEFAULT_OPEN.s, Quote(op.file_path))))
        ELSE ~op.cmd.raised /\ ~Truthy(op.cmd.value)

\* C5: for a path of known media type the resolver returns the mailcap
\* command as it is when mailcap has one, and otherwise DEFAULT_OPEN with
\* the shell-quoted path in place of {file_path}.
C5_RecognizedType ==
    (Resolved /\ Recognized) =>
        /\ ~caps.none =>
               /\ ~op.cmd.raised
               /\ op.cmd.value = Some(<<"view", " ">> \o op.file_path)
        /\ (caps.none /\ ~DEFAULT_OPEN.none) =>
               /\ ~op.cmd.raised
               /\ op.cmd.value = Some(Format(DEFAULT_OPEN.s, Quote(op.file_path)))
        /\ (caps.none /\ Truthy(DEFAULT_OPEN) /\ op.file_path = <<"a", ".", "txt">>) =>
               op.cmd.value.s = <<"less", " ", "a", ".", "txt">>
        /\ (caps.none /\ Truthy(DEFAULT_OPEN) /\ op.file_path = <<" ", ".", "txt">>) =>
               op.cmd.value.s = <<"less", " ", "'", " ", ".", "txt", "'">>
        /\ (caps.none /\ Truthy(DEFAULT_OPEN) /\ op.file_path = <<"'", ".", "txt">>) =>
               op.cmd.value.s =
                   <<"less", " ", "'", "'", "\"", "'", "\"", "'", ".", "txt", "'">>

C5_Witness ==
    /\ Resolved
    /\ op.file_path = <<" ", ".", "txt">>
    /\ caps.none
    /\ Truthy(DEFAULT_OPEN)
    /\ op.launched
    /\ op.cmd.value.s = <<"less", " ", "'", " ", ".", "txt", "'">>

\* C6: the resolver raises for no path, whatever the media type, the
\* mailcap entry and DEFAULT_OPEN.
C6_NeverRaises == Resolved => ~op.cmd.raised

\* C7: open_file on a path for which the resolver returned nothing starts
\* no process, raises nothing and leaves the terminal and the regions as
\* __enter__ left them.
C7_NoOpOnMiss ==
    (Resolved /\ ~op.cmd.raised /\ ~Truthy(op.cmd.value)) =>
        /\ ~op.launched
        /\ ~op.raised
        /\ ops = 1 => launches = 0
        /\ pc = "body" => (~bodyErr /\ Current = entered)

C7_Witness ==
    /\ pc = "body"
    /\ Resolved
    /\ ~op.cmd.raised
    /\ ~Truthy(op.cmd.value)
    /\ ops = 1
    /\ launches = 0
    /\ Current = entered

\* C8: a second __exit__ on a scope that has ended leaves every flag and
\* every region's refresh strategy as the first __exit__ left it.
C8_IdempotentResume == pc = "reexited" => Current = post1

C8_Witness == pc = "reexited" /\ exitRuns = 2 /\ Current = post1 /\ post1 # entered

\* C9 as stated: __enter__ makes every region immediate and __exit__ makes
\* every region batched.
C9_ImmediateWhileSuspended ==
    /\ pc = "body" => AllRegions(Immediate)
    /\ pc \in {"ended", "reexited"} => AllRegions(Batched)

\* C9 as amended: __enter__ makes every region batched (win.noutrefresh)
\* and __exit__ makes every region immediate (win.refresh).
C9_BatchedWhileSuspended ==
    /\ pc = "body" => AllRegions(Batched)
    /\ pc \in {"ended", "reexited"} => AllRegions(Immediate)

C9_Witness ==
    /\ pc = "ended"
    /\ \A r \in Regions : entered.refresh[r] = Batched
    /\ AllRegions(Immediate)

\* C10: when an entry action fails partway, the terminal and the regions
\* are, once the scope is over, as they were before the entry.
C10_AtomicEntry == (pc = "fatal" /\ exitRuns = 0) => Current = pre

====
